---- MODULE Spec2Model ----
(***************************************************************************)
(* Consensus replica of the federated mint (FediMintConsensus):            *)
(* submit_transaction, process_consensus_outcome (begin / apply / end      *)
(* batches), process_transaction and the conflict filter, over a key-value *)
(* store with atomic batch commit.                                         *)
(***************************************************************************)
EXTENDS Integers, Sequences, FiniteSets, TLC

(* ---------------------------------------------------------------- bounds *)

\* number of consensus epochs the BFT black box delivers (epochs 0..MaxEpoch-1)
MaxEpoch == 2

\* largest number of transaction items in one consensus outcome (all peers)
MaxItems == 2

\* largest number of transaction items in one conflict-filter run (all peers)
MaxFilterItems == 3

\* largest number of key shares dealer_keygen is asked for
MaxKeys == 3

\* largest number of (index, share) pairs a caller hands to combine_valid_shares
MaxShares == 2

\* transactions in an outcome when several calls are in flight
MaxOverlapItems == 1

(* ------------------------------------------------------------ data model *)

Peers == {1, 2}

Epochs == 0 .. (MaxEpoch - 1)

\* cfg.fee_consensus: the consensus-fixed fee charged per input / output item
fee_consensus == 0

CoinsIn(notes, amount, valid) ==
    [kind |-> "Coins", notes |-> notes, utxo |-> 0, amount |-> amount, valid |-> valid]

PegIn(utxo, amount, valid) ==
    [kind |-> "PegIn", notes |-> {}, utxo |-> utxo, amount |-> amount, valid |-> valid]

CoinsOut(amount, valid) == [kind |-> "Coins", amount |-> amount, valid |-> valid]

PegOut(amount, valid) == [kind |-> "PegOut", amount |-> amount, valid |-> valid]

Tx(inputs, outputs, sig_ok) == [inputs |-> inputs, outputs |-> outputs, sig_ok |-> sig_ok]

\* The transactions clients and (Byzantine) peers hand to the replica,
\* indexed by their tx_hash.
\*   1 spends coin note 1 into a Coins and a PegOut output;
\*   2 names coin note 1 in two of its inputs and claims peg-in UTXO 1;
\*   3 claims peg-in UTXO 1 into a peg-out the wallet rejects;
\*   4 has no input and one Coins output of amount zero;
\*   5 is not funded and carries a bad signature.
Transaction ==
    << Tx(<<CoinsIn({1}, 2, TRUE)>>, <<CoinsOut(1, TRUE), PegOut(1, TRUE)>>, TRUE),
       Tx(<<CoinsIn({1}, 1, TRUE), CoinsIn({1}, 1, TRUE), PegIn(1, 1, TRUE)>>,
          <<CoinsOut(3, TRUE)>>, TRUE),
       Tx(<<PegIn(1, 1, TRUE)>>, <<PegOut(1, FALSE)>>, TRUE),
       Tx(<<>>, <<CoinsOut(0, TRUE)>>, TRUE),
       Tx(<<CoinsIn({2}, 1, TRUE)>>, <<CoinsOut(2, TRUE)>>, FALSE) >>

TxIds == DOMAIN Transaction

RECURSIVE SumAmount(_)
SumAmount(items) ==
    IF items = <<>> THEN 0 ELSE Head(items).amount + SumAmount(Tail(items))

\* Transaction::validate_funding: inputs pay for the outputs plus the fees
validate_funding(tx) ==
    SumAmount(tx.inputs)
        = SumAmount(tx.outputs) + fee_consensus * (Len(tx.inputs) + Len(tx.outputs))

\* Transaction::validate_signature
validate_signature(tx) == tx.sig_ok

(* ------------------------------------------- threshold blind signatures *)

\* Scalar: a prime field; the groups G1 and G2 have the field's order, a
\* point is written as its multiple of the group's generator, so point
\* addition is addition and scalar multiplication is multiplication in the
\* field, and pairing(a, b) is the product
ScalarOrder == 5

Scalars == 0 .. (ScalarOrder - 1)

generator == 1

Points == Scalars

\* the messages signed: the identity of G1 and a point that is not the
\* identity (multiplication by a nonzero scalar maps it to every other one)
Messages == {0, generator}

Add(a, b) == (a + b) % ScalarOrder

Sub(a, b) == (a + ScalarOrder - b) % ScalarOrder

Mul(a, b) == (a * b) % ScalarOrder

\* Scalar::invert: none for zero
invert(a) ==
    IF a = 0 THEN [some |-> FALSE, value |-> 0]
    ELSE [some |-> TRUE, value |-> CHOOSE b \in Scalars : Mul(a, b) = 1]

\* Scalar::from(u64)
ScalarFrom(k) == k % ScalarOrder

pairing(g1, g2) == Mul(g1, g2)

\* Poly::evaluate, Horner's method over the coefficients [a0 .. ad]
RECURSIVE evaluate(_, _)
evaluate(coefficients, x) ==
    IF coefficients = <<>> THEN 0
    ELSE Add(Head(coefficients), Mul(x, evaluate(Tail(coefficients), x)))

\* the Lagrange coefficient L_i(0): the product over j # i of x_j / (x_j - x_i)
RECURSIVE LagrangeAtZero(_, _, _)
LagrangeAtZero(points, i, j) ==
    IF j > Len(points) THEN 1
    ELSE IF j = i THEN LagrangeAtZero(points, i, j + 1)
    ELSE Mul(Mul(points[j][1], invert(Sub(points[j][1], points[i][1])).value),
             LagrangeAtZero(points, i, j + 1))

RECURSIVE SumLagrange(_, _)
SumLagrange(points, i) ==
    IF i > Len(points) THEN 0
    ELSE Add(Mul(points[i][2], LagrangeAtZero(points, i, 1)), SumLagrange(points, i + 1))

\* poly::interpolate_zero over (x, y) pairs: fails on an x that is zero or
\* that occurs twice
interpolate_zero(points) ==
    IF \/ \E i \in DOMAIN points : points[i][1] = 0
       \/ \E i, j \in DOMAIN points : i # j /\ points[i][1] = points[j][1]
    THEN [ok |-> FALSE, point |-> 0]
    ELSE [ok |-> TRUE, point |-> SumLagrange(points, 1)]

\* .take(threshold)
Take(seq, n) == SubSeq(seq, 1, IF n < Len(seq) THEN n ELSE Len(seq))

\* key shares that leave the leading coefficient of the polynomial out
sec_shares_low_degree(poly, keys) ==
    [idx \in 1 .. keys |-> evaluate(SubSeq(poly, 1, Len(poly) - 1), ScalarFrom(idx))]

\* the key shares of dealer_keygen for the polynomial it drew: share idx is
\* the evaluation at idx, for idx = 1 ..= keys
sec_shares(poly, keys) == [idx \in 1 .. keys |-> evaluate(poly, ScalarFrom(idx))]

\* SecretKeyShare::to_pub_key_share and the map of dealer_keygen
pub_shares(poly, keys) == [idx \in 1 .. keys |-> Mul(generator, sec_shares(poly, keys)[idx])]

pub_key(poly) == Mul(generator, evaluate(poly, 0))

\* aggregate that takes the zero-based index of a share as its x-coordinate
aggregate_zero_based(pks, threshold) ==
    interpolate_zero(Take([i \in DOMAIN pks |-> <<ScalarFrom(i - 1), pks[i]>>], threshold))

\* Aggregatable::aggregate for Vec<PublicKeyShare>: share idx (zero-based)
\* has x-coordinate idx + 1
aggregate(pks, threshold) ==
    interpolate_zero(Take([i \in DOMAIN pks |-> <<ScalarFrom(i), pks[i]>>], threshold))

\* blind_message, for the blinding key it drew
blinded_msg(msg, blinding_key) == Mul(msg, blinding_key)

sign_blinded_msg(msg, sks) == Mul(msg, sks)

\* combine_valid_shares that takes idx itself as the x-coordinate
combine_valid_shares_zero_based(sig_shares, threshold) ==
    interpolate_zero([i \in DOMAIN Take(sig_shares, threshold) |->
                         <<ScalarFrom(sig_shares[i][1]), sig_shares[i][2]>>])

\* combine_valid_shares that takes one pair less than the threshold
combine_valid_shares_take_fewer(sig_shares, threshold) ==
    interpolate_zero([i \in DOMAIN Take(sig_shares, threshold - 1) |->
                         <<ScalarFrom(sig_shares[i][1] + 1), sig_shares[i][2]>>])

\* combine_valid_shares over (idx, share) pairs with zero-based idx: the
\* first threshold pairs, at x-coordinate idx + 1
combine_valid_shares(sig_shares, threshold) ==
    interpolate_zero([i \in DOMAIN Take(sig_shares, threshold) |->
                         <<ScalarFrom(sig_shares[i][1] + 1), sig_shares[i][2]>>])

\* unblind_signature: invert().unwrap() panics on a zero blinding key
unblind_signature(blinding_key, blinded_sig) ==
    LET inv == invert(blinding_key)
    IN  IF inv.some THEN [ok |-> TRUE, point |-> Mul(blinded_sig, inv.value)]
        ELSE [ok |-> FALSE, point |-> 0]

verify(msg, sig, pk) == pairing(msg, pk) = pairing(sig, generator)

(* ------------------------------------------------------- key-value store *)

Key(table, id, idx) == [table |-> table, id |-> id, idx |-> idx]

ProposedTransactionKey(tx_hash) == Key("Proposed", tx_hash, 0)

AcceptedTransactionKey(tx_hash) == Key("Accepted", tx_hash, 0)

NonceKey(nonce) == Key("Nonce", nonce, 0)

UtxoKey(utxo) == Key("Utxo", utxo, 0)

MintOutKey(txid, out_idx) == Key("MintOut", txid, out_idx)

WalletOutKey(txid, out_idx) == Key("WalletOut", txid, out_idx)

HookKey(module, phase, e) == Key(module \o phase, e, 0)

Insert(key, val) == [op |-> "insert", key |-> key, val |-> val]

Delete(key) == [op |-> "delete", key |-> key, val |-> 0]

\* RawDatabase::get_value(k).is_some()
Has(store, key) == \E en \in store : en.key = key

\* RawDatabase::get_value(k), on a key that is present
Get(store, key) == (CHOOSE en \in store : en.key = key).val

ApplyOp(store, o) ==
    LET without == {en \in store : en.key # o.key}
    IN  IF o.op = "insert" THEN without \cup {[key |-> o.key, val |-> o.val]}
        ELSE without

\* RawDatabase::apply_batch: all operations of the batch, in batch order
RECURSIVE apply_batch(_, _)
apply_batch(store, batch) ==
    IF batch = <<>> THEN store
    ELSE apply_batch(ApplyOp(store, Head(batch)), Tail(batch))

\* RawDatabase::insert_entry: writes the entry (the old value is returned)
insert_entry(store, key, val) == ApplyOp(store, Insert(key, val))

(* ------------------------------------------------- federation modules *)

RECURSIVE SetToSeq(_)
SetToSeq(S) ==
    IF S = {} THEN <<>>
    ELSE LET m == CHOOSE x \in S : \A y \in S : x <= y
         IN  <<m>> \o SetToSeq(S \ {m})

Result(ok, ops) == [ok |-> ok, ops |-> ops]

\* Mint::validate_input: the notes are well signed and none is spent yet
mint_validate_input(store, coins) ==
    coins.valid /\ \A n \in coins.notes : ~Has(store, NonceKey(n))

\* Wallet::validate_input: the peg-in proof is good and the UTXO unclaimed
wallet_validate_input(store, peg_in) ==
    peg_in.valid /\ ~Has(store, UtxoKey(peg_in.utxo))

\* Mint::validate_output
mint_validate_output(store, coins) == coins.valid

\* Wallet::validate_output
wallet_validate_output(store, peg_out) == peg_out.valid

\* Mint::apply_input: marks every note of the input spent, in its sub-batch
mint_apply_input(store, coins) ==
    IF mint_validate_input(store, coins)
    THEN Result(TRUE, [i \in 1 .. Cardinality(coins.notes) |->
                          Insert(NonceKey(SetToSeq(coins.notes)[i]), 0)])
    ELSE Result(FALSE, <<>>)

\* Wallet::apply_input: marks the peg-in UTXO claimed, in its sub-batch
wallet_apply_input(store, peg_in) ==
    IF wallet_validate_input(store, peg_in)
    THEN Result(TRUE, <<Insert(UtxoKey(peg_in.utxo), 0)>>)
    ELSE Result(FALSE, <<>>)

\* Mint::apply_output: records the issuance under its OutPoint
mint_apply_output(store, coins, txid, out_idx) ==
    IF mint_validate_output(store, coins)
    THEN Result(TRUE, <<Insert(MintOutKey(txid, out_idx), coins.amount)>>)
    ELSE Result(FALSE, <<>>)

\* Wallet::apply_output: records the peg-out under its OutPoint
wallet_apply_output(store, peg_out, txid, out_idx) ==
    IF wallet_validate_output(store, peg_out)
    THEN Result(TRUE, <<Insert(WalletOutKey(txid, out_idx), peg_out.amount)>>)
    ELSE Result(FALSE, <<>>)

\* Mint::output_status(outpoint): the outcome recorded under the OutPoint
mint_output_status(store, txid, out_idx) ==
    IF Has(store, MintOutKey(txid, out_idx))
    THEN [some |-> TRUE, outcome |-> Get(store, MintOutKey(txid, out_idx))]
    ELSE [some |-> FALSE, outcome |-> 0]

\* Wallet::output_status(outpoint)
wallet_output_status(store, txid, out_idx) ==
    IF Has(store, WalletOutKey(txid, out_idx))
    THEN [some |-> TRUE, outcome |-> Get(store, WalletOutKey(txid, out_idx))]
    ELSE [some |-> FALSE, outcome |-> 0]

\* begin hooks that leave their writes out of the begin batch
begin_consensus_epoch_deferred(e) == <<>>

\* Wallet::begin_consensus_epoch then Mint::begin_consensus_epoch, one batch
begin_consensus_epoch(e) ==
    << Insert(HookKey("Wallet", "Begin", e), 0), Insert(HookKey("Mint", "Begin", e), 0) >>

\* Wallet::end_consensus_epoch then Mint::end_consensus_epoch, one batch
end_consensus_epoch(e) ==
    << Insert(HookKey("Wallet", "End", e), 0), Insert(HookKey("Mint", "End", e), 0) >>

(* ------------------------------------------------------ conflict filter *)

\* the coin-note nonces a transaction names in its inputs
CoinNonces(tx) ==
    UNION {tx.inputs[i].notes : i \in {j \in DOMAIN tx.inputs : tx.inputs[j].kind = "Coins"}}

\* the peg-in UTXOs a transaction names in its inputs
PegInUtxos(tx) ==
    {tx.inputs[i].utxo : i \in {j \in DOMAIN tx.inputs : tx.inputs[j].kind = "PegIn"}}

\* the filter's walk over the transactions the accessor yields: keep[i] tells
\* whether the i-th item is kept; coin_set and peg_in_set hold the inputs of
\* the transactions kept so far
RECURSIVE FilterFrom(_, _, _)
FilterFrom(txs, coin_set, peg_in_set) ==
    IF txs = <<>> THEN <<>>
    ELSE LET tx    == Transaction[Head(txs)]
             clash == \/ CoinNonces(tx) \cap coin_set # {}
                      \/ PegInUtxos(tx) \cap peg_in_set # {}
         IN  IF clash THEN <<FALSE>> \o FilterFrom(Tail(txs), coin_set, peg_in_set)
             ELSE <<TRUE>> \o FilterFrom(Tail(txs), coin_set \cup CoinNonces(tx),
                                         peg_in_set \cup PegInUtxos(tx))

RECURSIVE SelectKept(_, _)
SelectKept(items, keep) ==
    IF items = <<>> THEN <<>>
    ELSE (IF Head(keep) THEN <<Head(items)>> ELSE <<>>) \o SelectKept(Tail(items), Tail(keep))

\* ConflictFilterable::filter_conflicts: an item is dropped when one of its
\* transaction's inputs is an input of a transaction kept before it
filter_conflicts(items, txs) == SelectKept(items, FilterFrom(txs, {}, {}))

(* -------------------------------------------------- process_transaction *)

\* the input loop: each input applies into a sub-batch of the transaction's
\* batch; the loop stops at the first input that fails
RECURSIVE apply_inputs(_, _, _)
apply_inputs(store, inputs, pending) ==
    IF inputs = <<>> THEN Result(TRUE, pending)
    ELSE LET input == Head(inputs)
             r == IF input.kind = "Coins" THEN mint_apply_input(store, input)
                  ELSE wallet_apply_input(store, input)
         IN  IF r.ok THEN apply_inputs(store, Tail(inputs), pending \o r.ops)
             ELSE Result(FALSE, pending)

\* the output loop: output idx applies under OutPoint (tx_hash, idx)
RECURSIVE apply_outputs(_, _, _, _, _)
apply_outputs(store, tx_hash, outputs, idx, pending) ==
    IF outputs = <<>> THEN Result(TRUE, pending)
    ELSE LET output == Head(outputs)
             r == IF output.kind = "Coins"
                  THEN mint_apply_output(store, output, tx_hash, idx)
                  ELSE wallet_apply_output(store, output, tx_hash, idx)
         IN  IF r.ok
             THEN apply_outputs(store, tx_hash, Tail(outputs), idx + 1, pending \o r.ops)
             ELSE Result(FALSE, pending)

\* BatchTx::commit: the pending operations reach the batch
commit(pending) == pending

\* a BatchTx that goes out of scope uncommitted: its pending operations and
\* those of its sub-batches are discarded
rollback(pending) == <<>>

\* process_transaction without the stateless validation
process_transaction_unvalidated(store, tx_hash) ==
    LET tx == Transaction[tx_hash]
        ins == apply_inputs(store, tx.inputs, <<>>)
    IN  IF ~ins.ok THEN Result(FALSE, rollback(ins.ops))
        ELSE LET outs == apply_outputs(store, tx_hash, tx.outputs, 0, ins.ops)
             IN  IF ~outs.ok THEN Result(FALSE, rollback(outs.ops))
                 ELSE Result(TRUE, commit(outs.ops))

\* process_transaction that numbers the outputs from one
process_transaction_one_based(store, tx_hash) ==
    LET tx == Transaction[tx_hash]
    IN  IF ~validate_funding(tx) \/ ~validate_signature(tx) THEN Result(FALSE, rollback(<<>>))
        ELSE LET ins == apply_inputs(store, tx.inputs, <<>>)
             IN  IF ~ins.ok THEN Result(FALSE, rollback(ins.ops))
                 ELSE LET outs == apply_outputs(store, tx_hash, tx.outputs, 1, ins.ops)
                      IN  IF ~outs.ok THEN Result(FALSE, rollback(outs.ops))
                          ELSE Result(TRUE, commit(outs.ops))

\* process_transaction that commits what has applied when it gives up
process_transaction_partial(store, tx_hash) ==
    LET tx == Transaction[tx_hash]
    IN  IF ~validate_funding(tx) \/ ~validate_signature(tx) THEN Result(FALSE, rollback(<<>>))
        ELSE LET ins == apply_inputs(store, tx.inputs, <<>>)
             IN  IF ~ins.ok THEN Result(FALSE, commit(ins.ops))
                 ELSE LET outs == apply_outputs(store, tx_hash, tx.outputs, 0, ins.ops)
                      IN  Result(outs.ok, commit(outs.ops))

\* FediMintConsensus::process_transaction: the writes reach the caller's
\* batch only through batch.commit(), after every input and output applied
process_transaction(store, tx_hash) ==
    LET tx == Transaction[tx_hash]
    IN  IF ~validate_funding(tx) \/ ~validate_signature(tx) THEN Result(FALSE, rollback(<<>>))
        ELSE LET ins == apply_inputs(store, tx.inputs, <<>>)
             IN  IF ~ins.ok THEN Result(FALSE, rollback(ins.ops))
                 ELSE LET outs == apply_outputs(store, tx_hash, tx.outputs, 0, ins.ops)
                      IN  IF ~outs.ok THEN Result(FALSE, rollback(outs.ops))
                          ELSE Result(TRUE, commit(outs.ops))

(* ------------------------------------------- process_consensus_outcome *)

RECURSIVE SeqsUpTo(_, _)
SeqsUpTo(S, n) ==
    IF n = 0 THEN {<<>>}
    ELSE LET shorter == SeqsUpTo(S, n - 1)
         IN  shorter \cup {Append(q, x) : q \in {r \in shorter : Len(r) = n - 1}, x \in S}

RECURSIVE TotalLen(_, _)
TotalLen(contributions, peers) ==
    IF peers = {} THEN 0
    ELSE LET p == CHOOSE x \in peers : TRUE
         IN  Len(contributions[p]) + TotalLen(contributions, peers \ {p})

\* ConsensusOutcome.contributions: each peer's transaction items, in its order
Contributions(n) ==
    {c \in [Peers -> SeqsUpTo(TxIds, n)] : TotalLen(c, Peers) <= n}

\* the contributions of the outcomes the replica processes
OutcomeContributions == Contributions(MaxItems)

\* the contributions of the conflict-filter runs
FilterContributions == Contributions(MaxFilterItems)

\* flat_map that walks the contribution map from the last peer to the first
RECURSIVE FlatMapDescending(_, _)
FlatMapDescending(contributions, peers) ==
    IF peers = <<>> THEN <<>>
    ELSE LET peer == Head(peers)
         IN  FlatMapDescending(contributions, Tail(peers))
                 \o [i \in 1 .. Len(contributions[peer]) |-> <<peer, contributions[peer][i]>>]

\* flat_map that yields each peer's items last to first
RECURSIVE FlatMapReversed(_, _)
FlatMapReversed(contributions, peers) ==
    IF peers = <<>> THEN <<>>
    ELSE LET peer == Head(peers)
             n    == Len(contributions[peer])
         IN  [i \in 1 .. n |-> <<peer, contributions[peer][n + 1 - i]>>]
                 \o FlatMapReversed(contributions, Tail(peers))

\* the flat_map over the contribution map: peers in ascending order, each
\* peer's items in the peer's own order, as (peer, transaction) pairs
RECURSIVE FlatMap(_, _)
FlatMap(contributions, peers) ==
    IF peers = <<>> THEN <<>>
    ELSE LET peer == Head(peers)
         IN  [i \in 1 .. Len(contributions[peer]) |-> <<peer, contributions[peer][i]>>]
                 \o FlatMap(contributions, Tail(peers))

transaction_cis(contributions) == FlatMap(contributions, SetToSeq(Peers))

\* the accessor |(_, tx)| tx, over the whole sequence
TxHashes(items) == [i \in DOMAIN items |-> items[i][2]]

\* the transaction items of the outcomes the replica processes, unzipped
OutcomeTransactions == {TxHashes(transaction_cis(c)) : c \in OutcomeContributions}

\* the filtered (peer, transaction) pairs, in received order
filtered_transactions(items) == filter_conflicts(items, TxHashes(items))

\* the closure of the parallel map: the batch of one surviving transaction
par_db_batch(store, e, tx_hash) ==
    LET r == process_transaction(store, tx_hash)
    IN  <<Delete(ProposedTransactionKey(tx_hash))>>
            \o r.ops
            \o (IF r.ok THEN <<Insert(AcceptedTransactionKey(tx_hash), e)>> ELSE <<>>)

Perms(n) == {f \in [1 .. n -> 1 .. n] : \A i, j \in 1 .. n : f[i] = f[j] => i = j}

\* the k-th element of a set of indices, by ascending key
Nth(S, key, k) == CHOOSE i \in S : Cardinality({j \in S : key[j] < key[i]}) = k - 1

\* the rank in which the workers take the items first to last
InOrder(txs) == [i \in DOMAIN txs |-> i]

\* the parallel map over the transaction items as received, without the
\* conflict filter
par_db_batches_unfiltered(store, e, txs, rank) ==
    [n \in DOMAIN txs |-> par_db_batch(store, e, txs[n])]

\* the collected parallel map over the filtered transactions: the worker of
\* item i runs at time rank[i] and reads the store as committed before the
\* map; collect() holds each batch at the position of its transaction
par_db_batches(store, e, txs, rank) ==
    LET kept     == SelectKept(InOrder(txs), FilterFrom(txs, {}, {}))
        computed == [n \in DOMAIN kept |->
                        [at |-> rank[kept[n]], batch |-> par_db_batch(store, e, txs[kept[n]])]]
    IN  [n \in DOMAIN kept |-> computed[n].batch]

\* BatchTx::append_from_accumulators
RECURSIVE append_from_accumulators(_)
append_from_accumulators(batches) ==
    IF batches = <<>> THEN <<>>
    ELSE Head(batches) \o append_from_accumulators(Tail(batches))

\* no conflict filter and no merged batch: every transaction applies to the
\* store as its worker completes, so the first to complete wins a conflict
RECURSIVE ApplyAsCompleted(_, _, _, _, _)
ApplyAsCompleted(store, e, txs, rank, k) ==
    IF k > Len(txs) THEN store
    ELSE LET i == Nth(DOMAIN txs, rank, k)
         IN  ApplyAsCompleted(apply_batch(store, par_db_batch(store, e, txs[i])),
                              e, txs, rank, k + 1)

apply_phase_as_completed(store, e, txs, rank) == ApplyAsCompleted(store, e, txs, rank, 1)

\* the apply phase: conflict filter, parallel map, merge, one apply_batch
apply_phase(store, e, txs, rank) ==
    apply_batch(store, append_from_accumulators(par_db_batches(store, e, txs, rank)))

(* --------------------------------------------------- submit_transaction *)

\* the checks of submit_transaction, in the order the code runs them
submit_checks(store, tx) ==
    /\ validate_funding(tx)
    /\ validate_signature(tx)
    /\ \A i \in DOMAIN tx.inputs :
          IF tx.inputs[i].kind = "Coins" THEN mint_validate_input(store, tx.inputs[i])
          ELSE wallet_validate_input(store, tx.inputs[i])
    /\ \A i \in DOMAIN tx.outputs :
          IF tx.outputs[i].kind = "Coins" THEN mint_validate_output(store, tx.outputs[i])
          ELSE wallet_validate_output(store, tx.outputs[i])

\* submit_transaction that writes the pool entry before it validates
submit_transaction_insert_first(store, tx_hash) ==
    insert_entry(store, ProposedTransactionKey(tx_hash), tx_hash)

\* submit_transaction that takes an entry it finds in the pool out of it
submit_transaction_drop_known(store, tx_hash) ==
    IF ~submit_checks(store, Transaction[tx_hash]) THEN store
    ELSE IF Has(store, ProposedTransactionKey(tx_hash))
         THEN ApplyOp(store, Delete(ProposedTransactionKey(tx_hash)))
         ELSE insert_entry(store, ProposedTransactionKey(tx_hash), tx_hash)

\* the store submit_transaction leaves behind
submit_transaction(store, tx_hash) ==
    IF submit_checks(store, Transaction[tx_hash])
    THEN insert_entry(store, ProposedTransactionKey(tx_hash), tx_hash)
    ELSE store

(* --------------------------------------------------- transaction_status *)

Reply(kind, e, outputs) == [kind |-> kind, epoch |-> e, outputs |-> outputs]

\* the map over accepted_tx.transaction.outputs: output out_idx is looked up
\* under OutPoint (txid, out_idx) in the module of its variant
output_outcomes(store, txid) ==
    LET outputs == Transaction[txid].outputs
    IN  [i \in DOMAIN outputs |->
            LET st == IF outputs[i].kind = "Coins"
                      THEN mint_output_status(store, txid, i - 1)
                      ELSE wallet_output_status(store, txid, i - 1)
            IN  [module |-> IF outputs[i].kind = "Coins" THEN "Mint" ELSE "Wallet",
                 some |-> st.some, outcome |-> st.outcome]]

\* transaction_status that answers from the proposed pool first
transaction_status_pool_first(store, txid) ==
    IF Has(store, ProposedTransactionKey(txid)) THEN Reply("AwaitingConsensus", 0, <<>>)
    ELSE IF Has(store, AcceptedTransactionKey(txid))
         THEN Reply("Accepted", Get(store, AcceptedTransactionKey(txid)),
                    output_outcomes(store, txid))
         ELSE Reply("None", 0, <<>>)

\* FediMintConsensus::transaction_status: "Panic" is the expect() on an
\* output status that is absent
transaction_status(store, txid) ==
    IF Has(store, AcceptedTransactionKey(txid))
    THEN LET outs == output_outcomes(store, txid)
         IN  IF \E i \in DOMAIN outs : ~outs[i].some THEN Reply("Panic", 0, <<>>)
             ELSE Reply("Accepted", Get(store, AcceptedTransactionKey(txid)), outs)
    ELSE IF Has(store, ProposedTransactionKey(txid))
         THEN Reply("AwaitingConsensus", 0, <<>>)
         ELSE Reply("None", 0, <<>>)

(* ----------------------------------------------- get_consensus_proposal *)

ConsensusItem(kind, item) == [kind |-> kind, item |-> item]

\* Database::find_by_prefix: the values of a table in the order of the keys
RECURSIVE find_by_prefix(_, _)
find_by_prefix(store, table) ==
    LET found == {en \in store : en.key.table = table}
    IN  IF found = {} THEN <<>>
        ELSE LET first == CHOOSE en \in found : \A o \in found : en.key.id <= o.key.id
             IN  <<first.val>> \o find_by_prefix(store \ {first}, table)

Tagged(kind, items) == [i \in DOMAIN items |-> ConsensusItem(kind, items[i])]

\* get_consensus_proposal with the mint's items chained before the wallet's
get_consensus_proposal_mint_first(store, wallet_cis, mint_cis) ==
    Tagged("Transaction", find_by_prefix(store, "Proposed"))
        \o Tagged("Mint", mint_cis) \o Tagged("Wallet", wallet_cis)

\* get_consensus_proposal: wallet_cis and mint_cis are what the modules'
\* consensus_proposal return
get_consensus_proposal(store, wallet_cis, mint_cis) ==
    Tagged("Transaction", find_by_prefix(store, "Proposed"))
        \o Tagged("Wallet", wallet_cis) \o Tagged("Mint", mint_cis)

(* --------------------------------------------------------- state machine *)

VARIABLES
    db,       \* the KV store: a set of [key, val] entries
    pc,       \* where process_consensus_outcome stands: idle, begun, applied
    cur,      \* the outcome being processed: its epoch
    epoch,    \* the epoch of the next outcome the BFT black box delivers
    last,     \* the last step taken and its result
    fContrib, \* conflict-filter run: the contributions
    fKept,    \* conflict-filter run: the filtered transactions
    fDone,    \* conflict-filter run: the filter has run
    kThreshold,   \* signing run: the threshold handed to dealer_keygen
    kKeys,        \* signing run: the number of keys handed to dealer_keygen
    kPoly,        \* signing run: the polynomial dealer_keygen drew
    kAgg,         \* signing run: the result of aggregate
    tMsg,         \* signing run: the message
    tBlindingKey, \* signing run: the blinding key blind_message drew
    tSigShares,   \* combine run: the (index, share) pairs handed over
    tMet,         \* signing run: what kind of share list was combined
    tBSig,        \* the result of combine_valid_shares
    tSig,         \* signing run: the result of unblind_signature
    tVerified,    \* signing run: the result of verify
    tPc,          \* signing run: the calls made so far
    oPc,          \* calls in flight: per epoch, the await its call stands on
    oLog,         \* calls in flight: the apply_batch calls made, in order
    sChecked,     \* submit on its own thread: the transaction that passed the checks
    lOwn          \* this replica's peer id and its proposal on the way to an outcome

vars == <<db, pc, cur, epoch, last, fContrib, fKept, fDone, kThreshold, kKeys, kPoly,
          kAgg, tMsg, tBlindingKey, tSigShares, tMet, tBSig, tSig, tVerified, tPc,
          oPc, oLog, sChecked, lOwn>>

tbsRun == <<kThreshold, kKeys, kPoly, kAgg, tMsg, tBlindingKey, tSigShares, tMet,
            tBSig, tSig, tVerified, tPc>>

replica == <<db, pc, cur, epoch, last>>

filterRun == <<fContrib, fKept, fDone>>

inFlight == <<oPc, oLog, sChecked, lOwn>>

NoOutcome == [epoch |-> 0]

\* a step and what it met: ok and existed are submit_transaction's result and
\* its new.is_some(); items is what get_consensus_proposal returned; partial and many tell of the apply phase that a
\* surviving transaction failed after its inputs applied, that several
\* transactions survived and one was accepted, and that a transaction was
\* accepted that was not in the proposed pool of this replica
Step(op, ok, existed) ==
    [op |-> op, ok |-> ok, existed |-> existed, partial |-> FALSE, many |-> FALSE,
     fresh |-> FALSE, items |-> <<>>]

KeptTxs(txs) == {txs[i] : i \in {j \in DOMAIN txs : FilterFrom(txs, {}, {})[j]}}

FailsAfterInputs(store, h) ==
    /\ Transaction[h].inputs # <<>>
    /\ validate_funding(Transaction[h]) /\ validate_signature(Transaction[h])
    /\ apply_inputs(store, Transaction[h].inputs, <<>>).ok
    /\ ~process_transaction(store, h).ok

ApplyStepMet(store, txs) ==
    [op |-> "apply", ok |-> TRUE, existed |-> FALSE, items |-> <<>>,
     partial |-> \E h \in KeptTxs(txs) : FailsAfterInputs(store, h),
     many |-> /\ Cardinality(KeptTxs(txs)) >= 2
              /\ \E h \in KeptTxs(txs) : process_transaction(store, h).ok,
     fresh |-> \E h \in KeptTxs(txs) :
                  /\ process_transaction(store, h).ok
                  /\ ~Has(store, ProposedTransactionKey(h))]

ReplicaInit ==
    /\ db = {}
    /\ pc = "idle"
    /\ cur = NoOutcome
    /\ epoch = 0
    /\ last = Step("none", TRUE, FALSE)

FilterIdle ==
    /\ fContrib = [p \in Peers |-> <<>>]
    /\ fKept = <<>>
    /\ fDone = FALSE

\* the replica is peer p and has no proposal on the way
NoProposal(p) == [peer |-> p, some |-> FALSE, txs |-> <<>>]

\* no call of process_consensus_outcome made
NoCalls ==
    /\ oPc = [e \in Epochs |-> "new"]
    /\ oLog = <<>>
    /\ sChecked = {}
    /\ lOwn = NoProposal(1)

NoPoint == [ok |-> FALSE, point |-> 0]

NotMet == "none"

\* no call made yet, for the inputs given
TbsStart(threshold, keys, msg, sig_shares) ==
    /\ kThreshold = threshold
    /\ kKeys = keys
    /\ kPoly = <<>>
    /\ kAgg = NoPoint
    /\ tMsg = msg
    /\ tBlindingKey = 0
    /\ tSigShares = sig_shares
    /\ tMet = NotMet
    /\ tBSig = NoPoint
    /\ tSig = NoPoint
    /\ tVerified = FALSE
    /\ tPc = "start"

TbsIdle == TbsStart(1, 1, 0, <<>>)

Init ==
    /\ ReplicaInit
    /\ FilterIdle
    /\ TbsIdle
    /\ NoCalls

\* submit_transaction(transaction), from a client: it runs to completion
\* wherever process_consensus_outcome is idle or suspended, which is on the
\* awaits of the begin hooks (before the begin batch) and of the end hooks
\* (after the apply batch); lines 134-181 hold no await
Submit(tx_hash) ==
    /\ pc \in {"idle", "applied"}
    /\ db' = submit_transaction(db, tx_hash)
    /\ last' = Step("submit", submit_checks(db, Transaction[tx_hash]),
                     Has(db, ProposedTransactionKey(tx_hash)))
    /\ UNCHANGED <<pc, cur, epoch, filterRun, inFlight, tbsRun>>

\* transaction_status(txid), from a client: synchronous like
\* submit_transaction; last tells whether the reply was Accepted and whether
\* the transaction was in the proposed pool
Status(txid) ==
    /\ pc \in {"idle", "applied"}
    /\ last' = Step("status", transaction_status(db, txid).kind = "Accepted",
                     Has(db, ProposedTransactionKey(txid)))
    /\ UNCHANGED <<db, pc, cur, epoch, filterRun, inFlight, tbsRun>>

\* what a module's consensus_proposal can return
ModuleProposals == {<<>>, <<2, 1>>}

\* get_consensus_proposal(): the chained iterators are run by collect(),
\* after the awaited consensus_proposal calls of the modules
Proposal(wallet_cis, mint_cis) ==
    /\ pc \in {"idle", "applied"}
    /\ last' = [Step("proposal", TRUE, FALSE)
                   EXCEPT !.items = get_consensus_proposal(db, wallet_cis, mint_cis)]
    /\ UNCHANGED <<db, pc, cur, epoch, filterRun, inFlight, tbsRun>>

\* process_consensus_outcome up to the commit of the begin-epoch batch,
\* which reads the wallet and mint items of the outcome only
PcoBegin ==
    /\ pc = "idle"
    /\ epoch < MaxEpoch
    /\ db' = apply_batch(db, begin_consensus_epoch(epoch))
    /\ cur' = [epoch |-> epoch]
    /\ pc' = "begun"
    /\ last' = Step("begin", TRUE, FALSE)
    /\ UNCHANGED <<epoch, filterRun, inFlight, tbsRun>>

\* ... from there to the commit of the merged apply batch: the outcome's
\* transaction items are read here; rank is the order in which the worker
\* threads get to the items
PcoApply(txs) ==
    /\ pc = "begun"
    /\ pc' = "applied"
    /\ last' = ApplyStepMet(db, txs)
    /\ \E rank \in Perms(Len(txs)) : db' = apply_phase(db, cur.epoch, txs, rank)
    /\ UNCHANGED <<cur, epoch, filterRun, inFlight, tbsRun>>

\* ... from there to the commit of the end-epoch batch and the return
PcoEnd ==
    /\ pc = "applied"
    /\ db' = apply_batch(db, end_consensus_epoch(cur.epoch))
    /\ pc' = "idle"
    /\ cur' = NoOutcome
    /\ epoch' = epoch + 1
    /\ last' = Step("end", TRUE, FALSE)
    /\ UNCHANGED <<filterRun, inFlight, tbsRun>>

\* the replica crashes inside process_consensus_outcome and restarts from
\* the persisted store; the interrupted outcome is not delivered again
Crash ==
    /\ pc # "idle"
    /\ pc' = "idle"
    /\ cur' = NoOutcome
    /\ epoch' = epoch + 1
    /\ last' = Step("crash", TRUE, FALSE)
    /\ UNCHANGED <<db, filterRun, inFlight, tbsRun>>

Next ==
    \/ \E tx_hash \in TxIds : Submit(tx_hash)
    \/ \E txid \in TxIds : Status(txid)
    \/ \E wallet_cis \in ModuleProposals, mint_cis \in ModuleProposals :
          Proposal(wallet_cis, mint_cis)
    \/ PcoBegin
    \/ \E txs \in OutcomeTransactions : PcoApply(txs)
    \/ PcoEnd
    \/ Crash

Spec == Init /\ [][Next]_vars

\* a run of the conflict filter over one epoch's contributions
RunFilter ==
    /\ ~fDone
    /\ fKept' = filtered_transactions(transaction_cis(fContrib))
    /\ fDone' = TRUE
    /\ UNCHANGED <<replica, fContrib, tbsRun, inFlight>>

InitFilter ==
    /\ ReplicaInit
    /\ TbsIdle
    /\ NoCalls
    /\ fContrib \in FilterContributions
    /\ fKept = <<>>
    /\ fDone = FALSE

NextFilter == RunFilter

SpecFilter == InitFilter /\ [][NextFilter]_vars

(* ------------------------------------------------ signing state machine *)

\* the lists of distinct zero-based key indices, in every order
IndexLists ==
    [keys \in 1 .. MaxKeys |->
        {l \in SeqsUpTo(0 .. (keys - 1), keys) :
            \A i, j \in DOMAIN l : l[i] = l[j] => i = j}]

Ascending(l) == \A i, j \in DOMAIN l : i < j => l[i] < l[j]

\* the kind of a share list: at least threshold shares (in ascending index
\* order or not), one share less than the threshold, or fewer
ListKind(l, threshold) ==
    IF Len(l) >= threshold THEN (IF Ascending(l) THEN "enough" ELSE "shuffled")
    ELSE IF Len(l) = threshold - 1 THEN "one short"
    ELSE "short"

\* the pairs (idx, sign_blinded_msg(bmsg, sks[idx])) of the signers in list l
HonestShares(poly, keys, bmsg, l) ==
    [i \in DOMAIN l |-> <<l[i], sign_blinded_msg(bmsg, sec_shares(poly, keys)[l[i] + 1])>>]

\* dealer_keygen(threshold, keys): Poly::random(threshold - 1) draws
\* threshold coefficients, any of which may be zero
DealerKeygen ==
    /\ tPc = "start"
    /\ \E coefficients \in [1 .. kThreshold -> Scalars] : kPoly' = coefficients
    /\ tPc' = "keys"
    /\ UNCHANGED <<replica, filterRun, inFlight, kThreshold, kKeys, kAgg, tMsg, tBlindingKey,
                   tSigShares, tMet, tBSig, tSig, tVerified>>

\* pks.aggregate(threshold) on the public key shares of dealer_keygen
Aggregate ==
    /\ tPc = "keys"
    /\ kAgg' = aggregate(pub_shares(kPoly, kKeys), kThreshold)
    /\ tPc' = "aggregated"
    /\ UNCHANGED <<replica, filterRun, inFlight, kThreshold, kKeys, kPoly, tMsg, tBlindingKey,
                   tSigShares, tMet, tBSig, tSig, tVerified>>

\* blind_message(msg): Scalar::random draws any scalar of the field
BlindMessage ==
    /\ tPc = "keys"
    /\ \E blinding_key \in Scalars : tBlindingKey' = blinding_key
    /\ tPc' = "blinded"
    /\ UNCHANGED <<replica, filterRun, inFlight, kThreshold, kKeys, kPoly, kAgg, tMsg,
                   tSigShares, tMet, tBSig, tSig, tVerified>>

\* the signers in list l sign the blinded message and their shares are
\* combined: combine_valid_shares(shares, threshold)
Combine(l) ==
    /\ tPc = "blinded"
    /\ tMet' = ListKind(l, kThreshold)
    /\ tBSig' = combine_valid_shares(
                    HonestShares(kPoly, kKeys, blinded_msg(tMsg, tBlindingKey), l),
                    kThreshold)
    /\ tPc' = "combined"
    /\ UNCHANGED <<replica, filterRun, inFlight, kThreshold, kKeys, kPoly, kAgg, tMsg,
                   tBlindingKey, tSigShares, tSig, tVerified>>

\* unblind_signature(bkey, bsig); tPc = "panicked" is the unwrap() on the
\* inverse of a zero blinding key
Unblind ==
    /\ tPc = "combined"
    /\ tBSig.ok
    /\ tSig' = unblind_signature(tBlindingKey, tBSig.point)
    /\ tPc' = IF tSig'.ok THEN "unblinded" ELSE "panicked"
    /\ UNCHANGED <<replica, filterRun, inFlight, kThreshold, kKeys, kPoly, kAgg, tMsg,
                   tBlindingKey, tSigShares, tMet, tBSig, tVerified>>

\* verify(msg, sig, pk) under the aggregate public key of dealer_keygen
Verify ==
    /\ tPc = "unblinded"
    /\ tVerified' = verify(tMsg, tSig.point, pub_key(kPoly))
    /\ tPc' = "verified"
    /\ UNCHANGED <<replica, filterRun, inFlight, kThreshold, kKeys, kPoly, kAgg, tMsg,
                   tBlindingKey, tSigShares, tMet, tBSig, tSig>>

InitTbs ==
    /\ ReplicaInit
    /\ FilterIdle
    /\ NoCalls
    /\ \E threshold \in 1 .. MaxKeys, keys \in 1 .. MaxKeys, msg \in Messages :
          /\ threshold <= keys
          /\ TbsStart(threshold, keys, msg, <<>>)

NextTbs ==
    \/ DealerKeygen
    \/ Aggregate
    \/ BlindMessage
    \/ \E l \in IndexLists[kKeys] : Combine(l)
    \/ Unblind
    \/ Verify

SpecTbs == InitTbs /\ [][NextTbs]_vars

(* ------------------------------------------------------- combine, alone *)

\* the (index, share) pairs a caller can hand over: any zero-based key
\* index with any point, valid share or not
SharePairs == (0 .. (MaxKeys - 1)) \X Points

\* combine_valid_shares(sig_shares, threshold) on the caller's pairs
CombineShares ==
    /\ tPc = "start"
    /\ tBSig' = combine_valid_shares(tSigShares, kThreshold)
    /\ tPc' = "combined"
    /\ UNCHANGED <<replica, filterRun, inFlight, kThreshold, kKeys, kPoly, kAgg, tMsg,
                   tBlindingKey, tSigShares, tMet, tSig, tVerified>>

InitCombine ==
    /\ ReplicaInit
    /\ FilterIdle
    /\ NoCalls
    /\ \E threshold \in 1 .. MaxKeys, sig_shares \in SeqsUpTo(SharePairs, MaxShares) :
          TbsStart(threshold, MaxKeys, 0, sig_shares)

NextCombine == CombineShares

SpecCombine == InitCombine /\ [][NextCombine]_vars

(* ------------------------------- process_consensus_outcome calls in flight *)

\* process_consensus_outcome is an async fn on &self: a call is a future that
\* runs from one await to the next when polled, and nothing in it keeps a
\* second call from being polled while the first stands on an await. The
\* call for epoch e is made once the call for e - 1 has been made.

\* the transaction items of an outcome
OverlapTransactions == SeqsUpTo(TxIds, MaxOverlapItems)

Commit(e, phase) == [epoch |-> e, phase |-> phase]

\* the call is made and runs to the await of the wallet's begin hook
PollToWalletBegin(e) ==
    /\ oPc[e] = "new"
    /\ e > 0 => oPc[e - 1] # "new"
    /\ oPc' = [oPc EXCEPT ![e] = "wallet_begin"]
    /\ UNCHANGED <<replica, oLog, sChecked, lOwn, filterRun, tbsRun>>

\* ... resumes and runs to the await of the mint's begin hook
PollToMintBegin(e) ==
    /\ oPc[e] = "wallet_begin"
    /\ oPc' = [oPc EXCEPT ![e] = "mint_begin"]
    /\ UNCHANGED <<replica, oLog, sChecked, lOwn, filterRun, tbsRun>>

\* ... resumes, commits the begin batch, filters, applies, commits the
\* merged batch and runs to the await of the wallet's end hook
PollToWalletEnd(e, txs) ==
    /\ oPc[e] = "mint_begin"
    /\ \E rank \in Perms(Len(txs)) :
          db' = apply_phase(apply_batch(db, begin_consensus_epoch(e)), e, txs, rank)
    /\ oLog' = oLog \o <<Commit(e, "begin"), Commit(e, "apply")>>
    /\ oPc' = [oPc EXCEPT ![e] = "wallet_end"]
    /\ UNCHANGED <<pc, cur, epoch, last, sChecked, lOwn, filterRun, tbsRun>>

\* ... resumes and runs to the await of the mint's end hook
PollToMintEnd(e) ==
    /\ oPc[e] = "wallet_end"
    /\ oPc' = [oPc EXCEPT ![e] = "mint_end"]
    /\ UNCHANGED <<replica, oLog, sChecked, lOwn, filterRun, tbsRun>>

\* ... resumes, commits the end batch and returns
PollToReturn(e) ==
    /\ oPc[e] = "mint_end"
    /\ db' = apply_batch(db, end_consensus_epoch(e))
    /\ oLog' = Append(oLog, Commit(e, "end"))
    /\ oPc' = [oPc EXCEPT ![e] = "done"]
    /\ UNCHANGED <<pc, cur, epoch, last, sChecked, lOwn, filterRun, tbsRun>>

InitOverlap ==
    /\ ReplicaInit
    /\ FilterIdle
    /\ TbsIdle
    /\ NoCalls

NextOverlap ==
    \E e \in Epochs :
        \/ PollToWalletBegin(e)
        \/ PollToMintBegin(e)
        \/ \E txs \in OverlapTransactions : PollToWalletEnd(e, txs)
        \/ PollToMintEnd(e)
        \/ PollToReturn(e)

SpecOverlap == InitOverlap /\ [][NextOverlap]_vars

(* ------------------------------------- submit_transaction on its own thread *)

\* submit_transaction is a plain fn on &self and FediMintConsensus is shared
\* between threads (the parallel map of line 148 borrows it on every worker):
\* a thread that serves clients runs it while process_consensus_outcome runs
\* on another, so the checks of lines 68-99 and the insert of lines 101-104
\* are two steps with the steps of process_consensus_outcome between them.

\* lines 61-99: the checks, on the store as it is now
SubmitValidate(tx_hash) ==
    /\ sChecked = {}
    /\ sChecked' = IF submit_checks(db, Transaction[tx_hash]) THEN {tx_hash} ELSE {}
    /\ last' = Step("checks", submit_checks(db, Transaction[tx_hash]),
                     Has(db, ProposedTransactionKey(tx_hash)))
    /\ UNCHANGED <<db, pc, cur, epoch, oPc, oLog, lOwn, filterRun, tbsRun>>

\* lines 101-110: the insert, on the store as it is by then
SubmitInsert(tx_hash) ==
    /\ tx_hash \in sChecked
    /\ db' = insert_entry(db, ProposedTransactionKey(tx_hash), tx_hash)
    /\ sChecked' = {}
    /\ last' = Step("submit", TRUE, Has(db, ProposedTransactionKey(tx_hash)))
    /\ UNCHANGED <<pc, cur, epoch, oPc, oLog, lOwn, filterRun, tbsRun>>

InitRace ==
    /\ ReplicaInit
    /\ FilterIdle
    /\ TbsIdle
    /\ NoCalls

NextRace ==
    \/ \E tx_hash \in TxIds : SubmitValidate(tx_hash)
    \/ \E tx_hash \in TxIds : SubmitInsert(tx_hash)
    \/ PcoBegin
    \/ \E txs \in OutcomeTransactions : PcoApply(txs)
    \/ PcoEnd

SpecRace == InitRace /\ [][NextRace]_vars

(* ------------------------------------------- proposals that reach outcomes *)

\* The replica hands get_consensus_proposal() to the BFT layer, the layer
\* delivers an outcome that holds it as this replica's contribution next to
\* the other peers' items, and process_consensus_outcome runs on it; then
\* the next proposal is taken. Epoch numbers past the last one of Epochs are
\* written as the last one, so that the run goes on.

\* the transaction items of get_consensus_proposal()
LivePropose ==
    /\ pc = "idle"
    /\ ~lOwn.some
    /\ lOwn' = [lOwn EXCEPT !.some = TRUE,
                            !.txs = find_by_prefix(db, "Proposed")]
    /\ last' = [Step("proposal", TRUE, FALSE)
                   EXCEPT !.items = get_consensus_proposal(db, <<>>, <<>>)]
    /\ UNCHANGED <<db, pc, cur, epoch, oPc, oLog, sChecked, filterRun, tbsRun>>

\* process_consensus_outcome of the outcome that holds the proposal, up to
\* the commit of the begin-epoch batch
LiveBegin ==
    /\ pc = "idle"
    /\ lOwn.some
    /\ db' = apply_batch(db, begin_consensus_epoch(epoch))
    /\ cur' = [epoch |-> epoch]
    /\ pc' = "begun"
    /\ last' = Step("begin", TRUE, FALSE)
    /\ UNCHANGED <<epoch, filterRun, inFlight, tbsRun>>

\* the contributions of the outcome: the proposal under this replica's peer
\* id, peer_txs under every other
LiveContributions(peer_txs) ==
    [p \in Peers |-> IF p = lOwn.peer THEN lOwn.txs ELSE peer_txs]

\* ... the apply phase on the outcome's transaction items
LiveApply(peer_txs) ==
    /\ pc = "begun"
    /\ pc' = "applied"
    /\ last' = Step("apply", TRUE, FALSE)
    /\ \E txs \in {TxHashes(transaction_cis(LiveContributions(peer_txs)))} :
          \E rank \in Perms(Len(txs)) : db' = apply_phase(db, cur.epoch, txs, rank)
    /\ UNCHANGED <<cur, epoch, filterRun, inFlight, tbsRun>>

\* ... the end-epoch batch and the return
LiveEnd ==
    /\ pc = "applied"
    /\ db' = apply_batch(db, end_consensus_epoch(cur.epoch))
    /\ pc' = "idle"
    /\ cur' = NoOutcome
    /\ epoch' = IF epoch + 1 < MaxEpoch THEN epoch + 1 ELSE epoch
    /\ lOwn' = NoProposal(lOwn.peer)
    /\ last' = Step("end", TRUE, FALSE)
    /\ UNCHANGED <<oPc, oLog, sChecked, filterRun, tbsRun>>

InitLive ==
    /\ ReplicaInit
    /\ FilterIdle
    /\ TbsIdle
    /\ oPc = [e \in Epochs |-> "new"]
    /\ oLog = <<>>
    /\ sChecked = {}
    /\ \E p \in Peers : lOwn = NoProposal(p)

LiveApplyAny == \E peer_txs \in OverlapTransactions : LiveApply(peer_txs)

NextLive ==
    \/ \E tx_hash \in TxIds : Submit(tx_hash)
    \/ LivePropose
    \/ LiveBegin
    \/ LiveApplyAny
    \/ LiveEnd

\* the proposals keep being taken and included in outcomes, and
\* process_consensus_outcome keeps running. The third conjunct is
\* WF_vars(LiveApplyAny) written out, the apply phase being enabled exactly
\* when pc = "begun".
LiveFairness ==
    /\ WF_vars(LivePropose)
    /\ WF_vars(LiveBegin)
    /\ ([]<>(pc # "begun") \/ []<><<LiveApplyAny>>_vars)
    /\ WF_vars(LiveEnd)

SpecLive == InitLive /\ [][NextLive]_vars /\ LiveFairness

(* ---------------------------------------------------------------- claims *)

Accepted(store) == {h \in TxIds : Has(store, AcceptedTransactionKey(h))}

Proposed(store) == {h \in TxIds : Has(store, ProposedTransactionKey(h))}

\* the inputs of the accepted transactions, as (tx_hash, input index) pairs
AcceptedInputs ==
    UNION {{<<h, i>> : i \in DOMAIN Transaction[h].inputs} : h \in Accepted(db)}

InputOf(pos) == Transaction[pos[1]].inputs[pos[2]]

SameResource(a, b) ==
    \/ a.kind = "Coins" /\ b.kind = "Coins" /\ a.notes \cap b.notes # {}
    \/ a.kind = "PegIn" /\ b.kind = "PegIn" /\ a.utxo = b.utxo

\* C1: over all accepted transactions together, no coin-note nonce and no
\* peg-in UTXO is an input more than once (within one transaction, within one
\* epoch or across epochs).
C1_AtMostOnceSpend ==
    \A a, b \in AcceptedInputs : a # b => ~SameResource(InputOf(a), InputOf(b))

\* C2: when the apply batch of process_consensus_outcome is committed, no
\* transaction of the outcome's contributions is left in the proposed pool,
\* whether it was accepted, failed or was dropped by the conflict filter.
C2_ContributedLeavePool ==
    pc = "begun" =>
        \A txs \in OutcomeTransactions :
            \A i \in DOMAIN txs :
                txs[i] \notin Proposed(apply_phase(db, cur.epoch, txs, InOrder(txs)))

BeginWritten(e) ==
    Has(db, HookKey("Wallet", "Begin", e)) /\ Has(db, HookKey("Mint", "Begin", e))

EndWritten(e) ==
    Has(db, HookKey("Wallet", "End", e)) /\ Has(db, HookKey("Mint", "End", e))

AcceptedIn(e) == {h \in Accepted(db) : Get(db, AcceptedTransactionKey(h)) = e}

\* C3: whenever the replica is outside process_consensus_outcome (after a
\* return or after a crash and restart), the store holds, for every epoch,
\* the writes of all of its phases or of none of them.
C3_EpochAtomicity ==
    pc = "idle" =>
        \A e \in Epochs :
            \/ BeginWritten(e) /\ EndWritten(e)
            \/ ~BeginWritten(e) /\ ~EndWritten(e) /\ AcceptedIn(e) = {}

\* C4: a submit_transaction that fails a check leaves the store as it was.
C4_FailedSubmitWritesNothing ==
    [][(last'.op = "submit" /\ ~last'.ok) => db' = db]_vars

C4_Witness == last.op = "submit" /\ ~last.ok /\ Proposed(db) # {}

\* C5: for a transaction that passes the checks, a second submit_transaction
\* right after the first passes too and leaves the store of the first, with
\* one pool entry for the tx_hash; a submit of a transaction that is in the
\* pool changes nothing.
C5_SubmitIdempotent ==
    \A h \in TxIds :
        submit_checks(db, Transaction[h]) =>
            LET once == submit_transaction(db, h)
            IN  /\ submit_checks(once, Transaction[h])
                /\ submit_transaction(once, h) = once
                /\ Cardinality({en \in once : en.key = ProposedTransactionKey(h)}) = 1
                /\ h \in Proposed(db) => once = db

C5_Witness == last.op = "submit" /\ last.ok /\ last.existed

\* C6: an AcceptedTransactionKey record, once written, is never changed or
\* removed by a later step.
C6_AcceptedImmutable ==
    [][\A h \in Accepted(db) :
          /\ h \in Accepted(db')
          /\ Get(db', AcceptedTransactionKey(h)) = Get(db, AcceptedTransactionKey(h))]_vars

\* the keys only transaction h can write: its inputs' and its outputs' keys
ModuleKeys(h) ==
    {NonceKey(n) : n \in CoinNonces(Transaction[h])}
        \cup {UtxoKey(u) : u \in PegInUtxos(Transaction[h])}
        \cup {MintOutKey(h, i - 1) : i \in DOMAIN Transaction[h].outputs}
        \cup {WalletOutKey(h, i - 1) : i \in DOMAIN Transaction[h].outputs}
        \cup {AcceptedTransactionKey(h)}

SameEntry(s1, s2, key) ==
    /\ Has(s1, key) = Has(s2, key)
    /\ Has(s1, key) => Get(s1, key) = Get(s2, key)

\* C7: a transaction that survives the conflict filter and fails in
\* process_transaction leaves the pool, and the committed apply batch holds
\* no AcceptedTransactionKey entry and no module write of it: its batch is
\* the delete of its ProposedTransactionKey.
C7_FailedTxOnlyLeavesPool ==
    pc = "begun" =>
        \A txs \in OutcomeTransactions :
            LET after == apply_phase(db, cur.epoch, txs, InOrder(txs))
            IN  \A h \in KeptTxs(txs) :
                    ~process_transaction(db, h).ok =>
                        /\ h \notin Proposed(after)
                        /\ \A key \in ModuleKeys(h) : SameEntry(db, after, key)
                        /\ par_db_batch(db, cur.epoch, h)
                               = <<Delete(ProposedTransactionKey(h))>>

\* an apply phase with a surviving transaction whose inputs all applied and
\* whose output failed
C7_Witness == pc = "applied" /\ last.op = "apply" /\ last.partial

Positions(c) == UNION {{<<p, k>> : k \in 1 .. Len(c[p])} : p \in Peers}

TxAt(c, pos) == c[pos[1]][pos[2]]

\* received order: peers in map order, each peer's items in its own order
Before(a, b) == a[1] < b[1] \/ (a[1] = b[1] /\ a[2] < b[2])

Conflict(h1, h2) ==
    \/ CoinNonces(Transaction[h1]) \cap CoinNonces(Transaction[h2]) # {}
    \/ PegInUtxos(Transaction[h1]) \cap PegInUtxos(Transaction[h2]) # {}

\* the positions kept: exactly those with no conflicting position kept before
KeptPositions(c) ==
    CHOOSE K \in SUBSET Positions(c) :
        \A pos \in Positions(c) :
            pos \in K <=> ~\E q \in K : Before(q, pos) /\ Conflict(TxAt(c, q), TxAt(c, pos))

KeptInOrder(c) ==
    LET K == KeptPositions(c)
    IN  [n \in 1 .. Cardinality(K) |->
            LET pos == CHOOSE x \in K : Cardinality({q \in K : Before(q, x)}) = n - 1
            IN  <<pos[1], TxAt(c, pos)>>]

\* C9: the conflict filter walks the transactions in received order and
\* keeps a transaction exactly when no transaction kept before it shares an
\* input with it: the first of conflicting transactions is kept, one that
\* conflicts only with dropped ones is kept, one without conflict is kept.
C9_FilterKeepsFirstSeen ==
    fDone =>
        /\ fKept = KeptInOrder(fContrib)
        /\ \A pos \in Positions(fContrib) :
              (\A q \in Positions(fContrib) :
                   Before(q, pos) => ~Conflict(TxAt(fContrib, q), TxAt(fContrib, pos)))
                  => \E i \in DOMAIN fKept : fKept[i] = <<pos[1], TxAt(fContrib, pos)>>

\* a kept transaction that conflicts with a transaction dropped before it
C9_Witness ==
    /\ fDone
    /\ \E d, k \in Positions(fContrib) :
          /\ Before(d, k)
          /\ d \notin KeptPositions(fContrib)
          /\ k \in KeptPositions(fContrib)
          /\ Conflict(TxAt(fContrib, d), TxAt(fContrib, k))
          /\ \E i \in DOMAIN fKept : fKept[i] = <<k[1], TxAt(fContrib, k)>>

\* the orders of the items that keep each peer's own order
Interleavings(c) ==
    LET n == Cardinality(Positions(c))
    IN  {L \in [1 .. n -> Positions(c)] :
            /\ \A i, j \in 1 .. n : L[i] = L[j] => i = j
            /\ \A i, j \in 1 .. n : (L[i][1] = L[j][1] /\ L[i][2] < L[j][2]) => i < j}

\* the (peer, transaction) pairs the filter keeps of the items in order L
Survivors(c, L) ==
    LET keep == FilterFrom([i \in DOMAIN L |-> TxAt(c, L[i])], {}, {})
    IN  {<<L[i][1], TxAt(c, L[i])>> : i \in {j \in DOMAIN L : keep[j]}}

NoCrossPeerConflict(c) ==
    \A a, b \in Positions(c) : a[1] # b[1] => ~Conflict(TxAt(c, a), TxAt(c, b))

\* C10: when no two transactions of different peers conflict, every
\* interleaving of the contributions that keeps each peer's own order has
\* the same set of surviving transactions, the one the filter produced.
C10_InterleavingSameSurvivors ==
    (fDone /\ NoCrossPeerConflict(fContrib)) =>
        \A L \in Interleavings(fContrib) :
            Survivors(fContrib, L) = {fKept[i] : i \in DOMAIN fKept}

\* both peers contribute, without cross-peer conflict, and an item is dropped
C10_Witness ==
    /\ fDone
    /\ NoCrossPeerConflict(fContrib)
    /\ \A p \in Peers : Len(fContrib[p]) >= 1
    /\ Len(fKept) < Cardinality(Positions(fContrib))

\* C11: transaction_status answers Accepted with the recorded epoch whenever
\* the AcceptedTransactionKey entry exists, also when the transaction is in
\* the proposed pool as well; AwaitingConsensus when only the pool entry
\* exists; absent when neither exists.
C11_StatusByKeys ==
    \A txid \in TxIds :
        LET r == transaction_status(db, txid)
        IN  /\ Has(db, AcceptedTransactionKey(txid)) =>
                  /\ r.kind = "Accepted"
                  /\ r.epoch = Get(db, AcceptedTransactionKey(txid))
                  /\ Len(r.outputs) = Len(Transaction[txid].outputs)
            /\ (~Has(db, AcceptedTransactionKey(txid))
                    /\ Has(db, ProposedTransactionKey(txid))) =>
                  r.kind = "AwaitingConsensus"
            /\ (~Has(db, AcceptedTransactionKey(txid))
                    /\ ~Has(db, ProposedTransactionKey(txid))) =>
                  r.kind = "None"

\* a reply Accepted for a transaction that is in the proposed pool too
C11_Witness == last.op = "status" /\ last.ok /\ last.existed

\* C12: for 1 <= t <= n, dealer_keygen(t, n) returns n public and n secret
\* key shares, and the aggregate of the first t public key shares is the
\* aggregate public key it returned.
C12_KeygenAggregates ==
    tPc = "aggregated" =>
        /\ Len(pub_shares(kPoly, kKeys)) = kKeys
        /\ Len(sec_shares(kPoly, kKeys)) = kKeys
        /\ kAgg.ok
        /\ kAgg.point = pub_key(kPoly)

\* an aggregate over fewer shares than keys, of a polynomial of full degree
C12_Witness ==
    /\ tPc = "aggregated"
    /\ kThreshold >= 2
    /\ kKeys > kThreshold
    /\ kPoly[kThreshold] # 0
    /\ kAgg.ok

Enough == tMet \in {"enough", "shuffled"}

\* C13: for every message, key set of dealer_keygen(t, n) and list of at
\* least t honest shares with distinct indices in any order, the blinding
\* key of blind_message, combine_valid_shares and unblind_signature yield a
\* signature that verify accepts under the aggregate public key.
C13_RoundtripVerifies ==
    Enough =>
        /\ tPc = "combined" => tBSig.ok
        /\ tPc # "panicked"
        /\ tPc = "verified" => tVerified

\* the signers 0 .. t-1, in index order
FirstSigners == [i \in 1 .. kThreshold |-> i - 1]

\* C14: for a fixed message, blinding key and key set, every list of at
\* least t honest shares has the same result of combine_valid_shares and
\* unblind_signature (the Signature point, when there is one).
C14_SubsetIndependent ==
    (Enough /\ tPc \in {"unblinded", "panicked", "verified"}) =>
        tSig = unblind_signature(
                   tBlindingKey,
                   combine_valid_shares(
                       HonestShares(kPoly, kKeys, blinded_msg(tMsg, tBlindingKey),
                                    FirstSigners),
                       kThreshold).point)

\* a signature that is not the identity, from more shares than the
\* threshold, handed over out of index order
C14_Witness ==
    /\ tPc = "unblinded"
    /\ tMet = "shuffled"
    /\ kThreshold >= 2
    /\ kKeys > kThreshold
    /\ kPoly[kThreshold] # 0
    /\ tSig.ok /\ tSig.point # 0

Permuted(seq, f) == [i \in DOMAIN seq |-> seq[f[i]]]

C16_BlindingKeyNonzero ==
    /\ tPc \in {"blinded", "combined", "unblinded", "verified"} => tBlindingKey # 0
    /\ tPc # "panicked"

\* the blinded signature of the blinded message under the secret poly(0)
ValidBlindedSignature == Mul(blinded_msg(tMsg, tBlindingKey), evaluate(kPoly, 0))

FullDegree == kPoly[kThreshold] # 0

Written(store, ops) ==
    \A i \in DOMAIN ops :
        ops[i].op = "insert" => [key |-> ops[i].key, val |-> ops[i].val] \in store

\* the step writes the AcceptedTransactionKey entry of h
WritesAccepted(h) ==
    /\ Has(db', AcceptedTransactionKey(h))
    /\ \/ ~Has(db, AcceptedTransactionKey(h))
       \/ Get(db', AcceptedTransactionKey(h)) # Get(db, AcceptedTransactionKey(h))

\* C18: an AcceptedTransactionKey entry is written only by the apply phase
\* of the epoch it records, for a transaction that passes validate_funding
\* and validate_signature and whose every input and output its module
\* applied on the store of that epoch, the writes being committed with the
\* entry; whether the transaction was in this replica's pool or not.
C18_AcceptedWereProcessed ==
    [][\A h \in TxIds :
          WritesAccepted(h) =>
              /\ pc = "begun" /\ pc' = "applied"
              /\ Get(db', AcceptedTransactionKey(h)) = cur.epoch
              /\ validate_funding(Transaction[h])
              /\ validate_signature(Transaction[h])
              /\ apply_inputs(db, Transaction[h].inputs, <<>>).ok
              /\ apply_outputs(db, h, Transaction[h].outputs, 0, <<>>).ok
              /\ Written(db', apply_inputs(db, Transaction[h].inputs, <<>>).ops)
              /\ Written(db', apply_outputs(db, h, Transaction[h].outputs, 0, <<>>).ops)]_vars

\* the first apply phase accepted a transaction with inputs and outputs
\* that was never in the proposed pool of this replica
C18_Witness ==
    /\ pc = "applied" /\ last.op = "apply" /\ last.fresh
    /\ cur.epoch = 0
    /\ \E h \in AcceptedIn(0) :
          /\ Transaction[h].inputs # <<>>
          /\ Transaction[h].outputs # <<>>

\* C19: for every accepted transaction, transaction_status finds the
\* status of every output under the OutPoint (txid, i) process_transaction
\* applied it under: the reply is Accepted, its outputs have the length and
\* order of tx.outputs, a Mint outcome for a Coins output and a Wallet
\* outcome for a PegOut output.
C19_OutputsFoundInOrder ==
    \A txid \in Accepted(db) :
        LET r       == transaction_status(db, txid)
            outputs == Transaction[txid].outputs
        IN  /\ r.kind = "Accepted"
            /\ Len(r.outputs) = Len(outputs)
            /\ \A i \in DOMAIN outputs :
                  /\ r.outputs[i].some
                  /\ r.outputs[i].module
                         = (IF outputs[i].kind = "Coins" THEN "Mint" ELSE "Wallet")
                  /\ r.outputs[i].outcome = outputs[i].amount

\* a reply Accepted for the one accepted transaction, which has a Coins and
\* a PegOut output
C19_Witness ==
    /\ last.op = "status" /\ last.ok
    /\ \E txid \in TxIds :
          /\ Accepted(db) = {txid}
          /\ Len(Transaction[txid].outputs) = 2
          /\ Transaction[txid].outputs[1].kind = "Coins"
          /\ Transaction[txid].outputs[2].kind = "PegOut"

\* C20: within one process_consensus_outcome the batches are committed in
\* the order begin, apply, end, the wallet hook before the mint hook: the
\* begin writes are in the store every process_transaction of the epoch
\* reads, no transaction is accepted in an epoch before them, and the end
\* writes come after the apply batch.
C20_PhaseOrder ==
    /\ pc = "begun" =>
          (BeginWritten(cur.epoch) /\ AcceptedIn(cur.epoch) = {} /\ ~EndWritten(cur.epoch))
    /\ pc = "applied" => (BeginWritten(cur.epoch) /\ ~EndWritten(cur.epoch))
    /\ \A e \in Epochs :
          /\ AcceptedIn(e) # {} => BeginWritten(e)
          /\ EndWritten(e) => BeginWritten(e)
          /\ Len(begin_consensus_epoch(e)) = 2 /\ Len(end_consensus_epoch(e)) = 2
          /\ begin_consensus_epoch(e)[1].key = HookKey("Wallet", "Begin", e)
          /\ begin_consensus_epoch(e)[2].key = HookKey("Mint", "Begin", e)
          /\ end_consensus_epoch(e)[1].key = HookKey("Wallet", "End", e)
          /\ end_consensus_epoch(e)[2].key = HookKey("Mint", "End", e)

\* an outcome with an accepted transaction has been processed to its end
C20_Witness ==
    /\ pc = "idle" /\ last.op = "end"
    /\ \E e \in Epochs : BeginWritten(e) /\ EndWritten(e) /\ AcceptedIn(e) # {}

\* C21: every apply_batch of epoch e (begin, apply, end) is made before any
\* apply_batch of epoch e + 1, however the calls of process_consensus_outcome
\* for consecutive epochs are polled across their awaits.
C21_EpochsCommitInOrder ==
    \A i, j \in DOMAIN oLog : i < j => oLog[i].epoch <= oLog[j].epoch

\* a serial apply: the filtered transactions one after another in filter
\* order, each into its own batch, each reading the store with the batches
\* of the transactions before it applied
RECURSIVE SerialBatches(_, _, _)
SerialBatches(store, e, kept) ==
    IF kept = <<>> THEN <<>>
    ELSE LET batch == par_db_batch(store, e, Head(kept))
         IN  <<batch>> \o SerialBatches(apply_batch(store, batch), e, Tail(kept))

\* ... and the store after the merged batches are applied
serial_apply(store, e, txs) ==
    apply_batch(store, append_from_accumulators(
        SerialBatches(store, e, SelectKept(txs, FilterFrom(txs, {}, {})))))

\* C22: a serial apply of the filtered transactions, each seeing the writes
\* of the ones before it, computes the same batch for every surviving
\* transaction (same result, same writes) and commits the same store as the
\* parallel apply does for every order in which its workers run.
C22_SerialEqualsParallel ==
    pc = "begun" =>
        \A txs \in OutcomeTransactions :
            /\ SerialBatches(db, cur.epoch, SelectKept(txs, FilterFrom(txs, {}, {})))
                   = par_db_batches(db, cur.epoch, txs, InOrder(txs))
            /\ \A rank \in Perms(Len(txs)) :
                   serial_apply(db, cur.epoch, txs) = apply_phase(db, cur.epoch, txs, rank)

\* an apply phase that accepted two surviving transactions
C22_Witness ==
    /\ pc = "applied" /\ last.op = "apply" /\ last.many
    /\ Cardinality(AcceptedIn(cur.epoch)) >= 2

\* the positions of a proposal that hold an item of the kind
OfKind(items, kind) == {i \in DOMAIN items : items[i].kind = kind}

\* the items of the kind, in the order they have in the proposal
RECURSIVE ItemsOfKind(_, _)
ItemsOfKind(items, kind) ==
    IF items = <<>> THEN <<>>
    ELSE (IF Head(items).kind = kind THEN <<Head(items).item>> ELSE <<>>)
             \o ItemsOfKind(Tail(items), kind)

\* C23: get_consensus_proposal returns every transaction of the proposed
\* pool exactly once, by ascending key, then every wallet item, then every
\* mint item, each source in its own order, and leaves the store unchanged.
C23_ProposalIsPoolThenModules ==
    [][\A wallet_cis \in ModuleProposals, mint_cis \in ModuleProposals :
          Proposal(wallet_cis, mint_cis) =>
              LET items == last'.items
                  txs   == ItemsOfKind(items, "Transaction")
              IN  /\ db' = db
                  /\ \A h \in TxIds :
                        Cardinality({i \in DOMAIN txs : txs[i] = h})
                            = (IF Has(db, ProposedTransactionKey(h)) THEN 1 ELSE 0)
                  /\ \A i, j \in DOMAIN txs : i < j => txs[i] < txs[j]
                  /\ ItemsOfKind(items, "Wallet") = wallet_cis
                  /\ ItemsOfKind(items, "Mint") = mint_cis
                  /\ \A i \in OfKind(items, "Transaction"),
                        j \in OfKind(items, "Wallet") \cup OfKind(items, "Mint") : i < j
                  /\ \A j \in OfKind(items, "Wallet"), k \in OfKind(items, "Mint") : j < k
                  /\ Len(items) = Len(txs) + Len(wallet_cis) + Len(mint_cis)]_vars

\* a proposal of two pool transactions, two wallet items and two mint items
C23_Witness ==
    /\ last.op = "proposal"
    /\ Cardinality(OfKind(last.items, "Transaction")) >= 2
    /\ Cardinality(OfKind(last.items, "Wallet")) = 2
    /\ Cardinality(OfKind(last.items, "Mint")) = 2

\* C24: no transaction is in the proposed pool and in the accepted set at
\* the same time, however submit_transaction calls are interleaved with
\* process_consensus_outcome calls.
C24_ProposedNotAccepted == Proposed(db) \cap Accepted(db) = {}

\* the batches of the parallel map in which transaction h applied: every
\* input and output went through its module and the batch holds the insert
\* of AcceptedTransactionKey(h)
Applications(store, e, txs, h) ==
    LET batches == par_db_batches(store, e, txs, InOrder(txs))
    IN  {n \in DOMAIN batches :
            \E i \in DOMAIN batches[n] :
                batches[n][i] = Insert(AcceptedTransactionKey(h), e)}

\* C25: a transaction that is several times among the contributions of one
\* epoch has its inputs and outputs applied by the modules at most once in
\* that epoch, and the store then holds exactly one AcceptedTransactionKey
\* record for it.
C25_CopiesApplyOnce ==
    pc = "begun" =>
        \A txs \in OutcomeTransactions, h \in TxIds :
            Cardinality({i \in DOMAIN txs : txs[i] = h}) >= 2 =>
                LET after == apply_phase(db, cur.epoch, txs, InOrder(txs))
                IN  /\ Cardinality(Applications(db, cur.epoch, txs, h)) <= 1
                    /\ Cardinality({en \in after : en.key = AcceptedTransactionKey(h)}) <= 1
                    /\ Applications(db, cur.epoch, txs, h) # {} =>
                           Get(after, AcceptedTransactionKey(h)) = cur.epoch

\* C26: with the proposals included in outcomes and process_consensus_outcome
\* running again and again, every transaction in the proposed pool leaves
\* the pool at some later time.
C26_PendingLeavesPool ==
    \A h \in TxIds :
        Has(db, ProposedTransactionKey(h)) ~> ~Has(db, ProposedTransactionKey(h))

====
